---- MODULE Spec2Model ----
(***************************************************************************)
(* paperless-hooks: the hook registry / reconciler (PaperlessHooks), the   *)
(* event contexts (DocumentAddedEvent) and the backend adapters, modelled  *)
(* from src/paperless_hooks.py, src/paperless_api.py and src/backends/.    *)
(*                                                                         *)
(* Python values are modelled as follows.  A dict is a sequence of         *)
(* <<key, value>> pairs in insertion order.  An optional attribute is the  *)
(* empty sequence (None) or a one-element sequence.  A string that is      *)
(* built by concatenation is the tuple of its parts; a string that is      *)
(* parsed (doc_url) is the tuple of its characters.                        *)
(***************************************************************************)
EXTENDS Integers, Sequences, FiniteSets, TLC

VARIABLES
    backend,               \* PaperlessHooks.backend: which adapter was supplied
    event_handlers,        \* PaperlessHooks.event_handlers: TriggerType -> list of EventHandler
    registered_workflows,  \* PaperlessHooks._registered_workflows (the ledger)
    routes,                \* the backend's route table: list of [path, handler]
    remote,                \* the workflows stored by the Paperless server, in id order
    nextId,                \* the next identifier the server assigns
    ncalls,                \* number of init()/cleanup() calls made so far
    nfaults,               \* number of REST requests that failed in transit so far
    last,                  \* what the most recent init()/cleanup() call did
    prev,                  \* summary of the init()/cleanup() call before it
    payload,               \* DocumentAddedEvent._payload.doc_url of the event under test
    docResult,             \* outcome of the last event-context method call
    docFetches,            \* REST document calls issued by the event context
    reqs,                  \* the POST requests the backend received, with their responses
    tasks                  \* the invocations of route bindings, in flight and finished

vars == <<backend, event_handlers, registered_workflows, routes, remote, nextId,
          ncalls, nfaults, last, prev, payload, docResult, docFetches,
          reqs, tasks>>

hookVars == <<backend, event_handlers, registered_workflows, routes, remote,
              nextId, ncalls, nfaults, last, prev>>

docVars == <<payload, docResult, docFetches>>

dispatchVars == <<reqs, tasks>>

-----------------------------------------------------------------------------
(* Bounds of the model.                                                    *)

\* at most this many handlers are registered in one run
MaxHandlers == 2

\* at most this many init()/cleanup() calls are made in one run
MaxCalls == 2

\* at most this many REST requests fail in transit in one run
MaxFaults == 1

\* the server never assigns an identifier above this one
MaxId == 6

\* number of workflows the server returns per listing page
PageSize == 2

\* longest doc_url enumerated character by character
MaxUrlLen == 3

\* at most this many document requests are issued through one event context
MaxFetches == 1

-----------------------------------------------------------------------------
(* paperless_api.py: enumerations and records.                             *)

CONSUMPTION_STARTED == 1
DOCUMENT_ADDED == 2
DOCUMENT_UPDATED == 3
SCHEDULED == 4

TriggerTypes == {CONSUMPTION_STARTED, DOCUMENT_ADDED, DOCUMENT_UPDATED, SCHEDULED}

WEBHOOK_WITH_CONFIG == 4

\* Optional[...] = None
None == <<>>

Some(x) == <<x>>

\* the fields of WorkflowTrigger that the model carries
TriggerFields == {"type", "filter_filename", "filter_path"}

\* WorkflowTrigger(type=trigger_type): every other field at its default
WorkflowTrigger(type) ==
    [type |-> Some(type), filter_filename |-> None, filter_path |-> None]

\* PlaceholderTemplates(): every field is its own template marker
PlaceholderTemplates ==
    [correspondent |-> "{{correspondent}}",
     doc_title     |-> "{{doc_title}}",
     doc_url       |-> "{{doc_url}}"]

WebhookConfig(url) ==
    [url |-> url, use_params |-> TRUE, as_json |-> TRUE,
     include_document |-> FALSE, params |-> PlaceholderTemplates]

WorkflowAction(webhook) == [type |-> WEBHOOK_WITH_CONFIG, webhook |-> webhook]

Workflow(name, order, triggers, actions) ==
    [id |-> None, name |-> name, order |-> order, enabled |-> TRUE,
     triggers |-> triggers, actions |-> actions]

-----------------------------------------------------------------------------
(* paperless_hooks.py: EventHandler and the constructor arguments.         *)

\* the filter dicts the caller passes to the decorators
NoFilters == <<>>

PdfOnly == << <<"filter_filename", "*.pdf">> >>

BogusKey == << <<"bogus", "1">> >>

\* the decorator uses of the caller's program, each the filters passed to the
\* decorator and func.__name__ of the callback it is applied to.  A use may be
\* made more than once, so callbacks of one name occur under one decorator as
\* well as under different ones.
DecoratorUses(event_type) ==
    CASE event_type = CONSUMPTION_STARTED -> {<<PdfOnly, "a">>, <<BogusKey, "a">>}
      [] event_type = DOCUMENT_ADDED      -> {<<NoFilters, "a">>, <<PdfOnly, "b">>}
      [] event_type = DOCUMENT_UPDATED    -> {<<NoFilters, "b">>}
      [] event_type = SCHEDULED           -> {<<NoFilters, "b">>}

webhook_base_url == "http://hooks"

workflow_start_index == 200

WorkflowPrefix == "paperless-hooks-"

Backends == {"none", "http_server", "fastapi", "flask"}

EventHandler(func, name, event_type, filters) ==
    [func |-> func, name |-> name, event_type |-> event_type, index |-> 0,
     url |-> None, workflow |-> None, filters |-> filters]

\* all handlers, in the order init() and _setup_routes() visit them
AllHandlers(eh) ==
    eh[CONSUMPTION_STARTED] \o eh[DOCUMENT_ADDED] \o eh[DOCUMENT_UPDATED] \o eh[SCHEDULED]

NumHandlers(eh) == Len(AllHandlers(eh))

Range(s) == { s[i] : i \in DOMAIN s }

\* the identifiers of a list of stored workflows
IdsOf(workflows) == [k \in DOMAIN workflows |-> workflows[k].id[1]]

-----------------------------------------------------------------------------
(* What an init() or cleanup() call did: the calls it issued to the REST   *)
(* client and to the backend, and the state it started from.               *)

NoCall ==
    [op |-> "none", raised |-> "none", nh |-> 0, pages |-> 0, listed |-> "no",
     listing |-> <<>>, listedWorkflows |-> <<>>,
     creates |-> <<>>, created |-> <<>>, deletes |-> <<>>, failed |-> <<>>,
     routeCalls |-> <<>>, ledgerBefore |-> <<>>, remoteBefore |-> <<>>]

\* what the next call remembers of a call
Summary(call) ==
    [op |-> call.op, raised |-> call.raised, nh |-> call.nh,
     listed |-> call.listed, creates |-> call.creates,
     nfailed |-> Len(call.failed), remoteBefore |-> call.remoteBefore]

-----------------------------------------------------------------------------
(* The Paperless server behind PaperlessAPI: /api/workflows/.              *)

Min(a, b) == IF a < b THEN a ELSE b

\* the results of page `page` of GET /api/workflows/
ServerPage(store, page) ==
    SubSeq(store, (page - 1) * PageSize + 1, Min(page * PageSize, Len(store)))

\* whether page `page` carries a "next" link
ServerHasNext(store, page) == page * PageSize < Len(store)

NumPages(store) ==
    IF Len(store) = 0 THEN 1 ELSE (Len(store) + PageSize - 1) \div PageSize

\* PaperlessAPI.workflows_iter: fetch page after page until one has no "next";
\* the request for page failAt fails (failAt = 0: no request fails).
RECURSIVE workflows_iter(_, _, _, _)
workflows_iter(store, page, failAt, acc) ==
    IF page = failAt
    THEN [raised |-> "PaperlessAPIError", items |-> acc, pages |-> page]
    ELSE LET acc2 == acc \o ServerPage(store, page)
         IN  IF ~ServerHasNext(store, page)
             THEN [raised |-> "none", items |-> acc2, pages |-> page]
             ELSE workflows_iter(store, page + 1, failAt, acc2)

\* PaperlessAPI.create_workflow: POST the definition without its id; the server
\* stores it under a fresh identifier and returns the stored object.
create_workflow(workflow, store, nid, ok) ==
    IF ok
    THEN LET created == [workflow EXCEPT !.id = Some(nid)]
         IN  [raised |-> "none", created |-> Some(created),
              store |-> Append(store, created), nid |-> nid + 1]
    ELSE [raised |-> "PaperlessAPIError", created |-> None,
          store |-> store, nid |-> nid]

\* str(x) as the f-string of delete_workflow formats its argument: the ledger
\* holds Workflow objects, whose str() is the pydantic field listing.
FormatPathArg(x) ==
    [kind |-> "repr", text |-> <<"id=", x.id, " name=", x.name>>]

\* f"/api/workflows/{workflow_id}/"
WorkflowPath(workflow_id) == <<"/api/workflows/", FormatPathArg(workflow_id), "/">>

\* the server resolves /api/workflows/<pk>/ only for a decimal pk of a stored workflow
ServerResolves(store, path) ==
    /\ path[2].kind = "int"
    /\ \E i \in DOMAIN store : store[i].id = Some(path[2].value)

RemoveAt(s, i) == SubSeq(s, 1, i - 1) \o SubSeq(s, i + 1, Len(s))

\* PaperlessAPI.delete_workflow: DELETE the path; any non-2xx answer raises
delete_workflow(workflow_id, store, ok) ==
    LET path == WorkflowPath(workflow_id)
    IN  IF ok /\ ServerResolves(store, path)
        THEN LET i == CHOOSE i \in DOMAIN store : store[i].id = Some(path[2].value)
             IN  [raised |-> "none", store |-> RemoveAt(store, i), path |-> path]
        ELSE [raised |-> "PaperlessAPIError", store |-> store, path |-> path]

-----------------------------------------------------------------------------
(* src/backends: BackendInterface.add_json_endpoint of each adapter.       *)

\* FlaskBackend: f"webhook_{path.replace('/', '_').strip('_')}" for path "/" + name
EndpointName(path) == <<"webhook_", path[2]>>

RECURSIVE ReplacePath(_, _)
ReplacePath(table, entry) ==
    IF table = <<>> THEN <<>>
    ELSE IF Head(table).path = entry.path
         THEN <<entry>> \o Tail(table)
         ELSE <<Head(table)>> \o ReplacePath(Tail(table), entry)

\* add_json_endpoint with the built-in server keeping its routes in a list:
\* a path registered again is appended, not replaced
add_json_endpoint_AppendingServer(kind, table, path, json_handler) ==
    LET entry == [path |-> path, handler |-> json_handler]
    IN  CASE kind \in {"http_server", "fastapi"} ->
               [raised |-> "none", table |-> Append(table, entry)]
          [] kind = "flask" ->
               IF \E i \in DOMAIN table :
                      EndpointName(table[i].path) = EndpointName(path)
               THEN [raised |-> "AssertionError", table |-> table]
               ELSE [raised |-> "none", table |-> Append(table, entry)]

\* HttpServerBackend: _JsonRouteHandler.routes[path] = json_handler (a dict)
\* FastApiBackend: app.post(path) appends one more route to the router
\* FlaskBackend: app.route(path, endpoint=name) refuses a second view function
\*   under an endpoint name that is taken (Flask raises AssertionError)
add_json_endpoint(kind, table, path, json_handler) ==
    LET entry == [path |-> path, handler |-> json_handler]
        taken == \E i \in DOMAIN table : table[i].path = path
    IN  CASE kind = "http_server" ->
               [raised |-> "none",
                table |-> IF taken THEN ReplacePath(table, entry)
                                   ELSE Append(table, entry)]
          [] kind = "fastapi" ->
               [raised |-> "none", table |-> Append(table, entry)]
          [] kind = "flask" ->
               IF \E i \in DOMAIN table :
                      EndpointName(table[i].path) = EndpointName(path)
               THEN [raised |-> "AssertionError", table |-> table]
               ELSE [raised |-> "none", table |-> Append(table, entry)]

-----------------------------------------------------------------------------
(* src/paperless_hooks.py: PaperlessHooks.                                 *)

WfName(name) == <<WorkflowPrefix, name>>

RoutePath(name) == <<"/", name>>

\* init(), lines 151-152: setattr(trigger, filter_name, filter_value) for each
\* filter in dict order; the pydantic model refuses a name that is no field
RECURSIVE ApplyFilters(_, _)
ApplyFilters(trigger, filters) ==
    IF filters = <<>>
    THEN [raised |-> "none", trigger |-> trigger]
    ELSE LET filter_name == Head(filters)[1]
             filter_value == Head(filters)[2]
         IN  IF filter_name \in TriggerFields
             THEN ApplyFilters([trigger EXCEPT ![filter_name] = Some(filter_value)],
                               Tail(filters))
             ELSE [raised |-> "ValueError", trigger |-> trigger]

\* the synthesis with WebhookConfig built from the url alone: use_params and
\* include_document keep the defaults of the pydantic model
SynthesizeWorkflow_DefaultWebhook(handler, trigger) ==
    Workflow(WfName(handler.name), workflow_start_index, <<trigger>>,
             <<WorkflowAction([WebhookConfig(<<webhook_base_url, "/", handler.name>>)
                                  EXCEPT !.use_params = FALSE,
                                         !.include_document = TRUE])>>)

\* init(), lines 147-172: the workflow synthesized for one handler
SynthesizeWorkflow(handler, trigger) ==
    Workflow(WfName(handler.name), workflow_start_index, <<trigger>>,
             <<WorkflowAction(WebhookConfig(<<webhook_base_url, "/", handler.name>>))>>)

\* the handler loop with workflows_to_create.append(workflow) one level out:
\* per trigger type only the workflow of the last handler is appended
RECURSIVE SynthesizeAll_AppendPerType(_, _, _, _)
SynthesizeAll_AppendPerType(eh, t, i, workflows_to_create) ==
    IF t > SCHEDULED
    THEN [raised |-> "none", eh |-> eh, workflows |-> workflows_to_create]
    ELSE IF i > Len(eh[t])
    THEN SynthesizeAll_AppendPerType(eh, t + 1, 1,
             IF eh[t] = <<>> THEN workflows_to_create
             ELSE Append(workflows_to_create, eh[t][Len(eh[t])].workflow[1]))
    ELSE LET handler == eh[t][i]
             r == ApplyFilters(WorkflowTrigger(t), handler.filters)
         IN  IF r.raised # "none"
             THEN [raised |-> r.raised, eh |-> eh, workflows |-> workflows_to_create]
             ELSE LET workflow == SynthesizeWorkflow(handler, r.trigger)
                      h2 == [handler EXCEPT !.workflow = Some(workflow),
                                            !.url = Some(RoutePath(handler.name))]
                  IN  SynthesizeAll_AppendPerType([eh EXCEPT ![t][i] = h2], t, i + 1,
                                                  workflows_to_create)

\* init(), lines 142-175: visit the trigger types in dict order and the handlers
\* of each in registration order; set handler.workflow and handler.url
RECURSIVE SynthesizeAll(_, _, _, _)
SynthesizeAll(eh, t, i, workflows_to_create) ==
    IF t > SCHEDULED
    THEN [raised |-> "none", eh |-> eh, workflows |-> workflows_to_create]
    ELSE IF i > Len(eh[t])
    THEN SynthesizeAll(eh, t + 1, 1, workflows_to_create)
    ELSE LET handler == eh[t][i]
             r == ApplyFilters(WorkflowTrigger(t), handler.filters)
         IN  IF r.raised # "none"
             THEN [raised |-> r.raised, eh |-> eh, workflows |-> workflows_to_create]
             ELSE LET workflow == SynthesizeWorkflow(handler, r.trigger)
                      h2 == [handler EXCEPT !.workflow = Some(workflow),
                                            !.url = Some(RoutePath(handler.name))]
                  IN  SynthesizeAll([eh EXCEPT ![t][i] = h2], t, i + 1,
                                    Append(workflows_to_create, workflow))

\* the create loop without the membership test on the listed names
RECURSIVE CreateLoop_IgnoringListing(_, _, _, _, _)
CreateLoop_IgnoringListing(workflows, i, existing_workflows, failSet, acc) ==
    IF i > Len(workflows) THEN acc
    ELSE LET c == create_workflow(workflows[i], acc.store, acc.nid, i \notin failSet)
         IN  CreateLoop_IgnoringListing(workflows, i + 1, existing_workflows, failSet,
                 [store      |-> c.store,
                  nid        |-> c.nid,
                  registered |-> acc.registered \o c.created,
                  creates    |-> Append(acc.creates, workflows[i].name),
                  failed     |-> IF c.raised = "none" THEN acc.failed
                                 ELSE Append(acc.failed, workflows[i].name)])

\* the create loop with the try/except around the loop instead of inside it:
\* the first failed create ends the loop
RECURSIVE CreateLoop_StoppingAtFailure(_, _, _, _, _)
CreateLoop_StoppingAtFailure(workflows, i, existing_workflows, failSet, acc) ==
    IF i > Len(workflows) THEN acc
    ELSE IF workflows[i].name \in existing_workflows
    THEN CreateLoop_StoppingAtFailure(workflows, i + 1, existing_workflows, failSet, acc)
    ELSE LET c == create_workflow(workflows[i], acc.store, acc.nid, i \notin failSet)
             acc2 == [store      |-> c.store,
                      nid        |-> c.nid,
                      registered |-> acc.registered \o c.created,
                      creates    |-> Append(acc.creates, workflows[i].name),
                      failed     |-> IF c.raised = "none" THEN acc.failed
                                     ELSE Append(acc.failed, workflows[i].name)]
         IN  IF c.raised # "none" THEN acc2
             ELSE CreateLoop_StoppingAtFailure(workflows, i + 1, existing_workflows,
                                               failSet, acc2)

\* _register_workflows, lines 193-204: create every workflow whose name the
\* listing did not contain; a failed create is caught and logged
RECURSIVE CreateLoop(_, _, _, _, _)
CreateLoop(workflows, i, existing_workflows, failSet, acc) ==
    IF i > Len(workflows) THEN acc
    ELSE IF workflows[i].name \in existing_workflows
    THEN CreateLoop(workflows, i + 1, existing_workflows, failSet, acc)
    ELSE LET c == create_workflow(workflows[i], acc.store, acc.nid, i \notin failSet)
         IN  CreateLoop(workflows, i + 1, existing_workflows, failSet,
                 [store      |-> c.store,
                  nid        |-> c.nid,
                  registered |-> acc.registered \o c.created,
                  creates    |-> Append(acc.creates, workflows[i].name),
                  failed     |-> IF c.raised = "none" THEN acc.failed
                                 ELSE Append(acc.failed, workflows[i].name)])

\* _register_workflows with the listing inside the try: a failed listing is
\* logged and every workflow is created as if the server held none
register_workflows_SwallowingListing(workflows, store, nid, failAt, failSet) ==
    LET listing == workflows_iter(store, 1, failAt, <<>>)
        existing_workflows == { listing.items[k].name : k \in DOMAIN listing.items }
        start == [store |-> store, nid |-> nid, registered |-> <<>>,
                  creates |-> <<>>, failed |-> <<>>]
    IN  IF listing.raised # "none"
        THEN [raised |-> "none", pages |-> listing.pages,
              listed |-> "failed", listing |-> <<>>, listedWorkflows |-> <<>>]
                 @@ CreateLoop(workflows, 1, {}, failSet, start)
        ELSE [raised |-> "none", pages |-> listing.pages, listed |-> "ok",
              listing |-> [k \in DOMAIN listing.items |-> listing.items[k].name],
              listedWorkflows |-> listing.items]
                 @@ CreateLoop(workflows, 1, existing_workflows, failSet, start)

\* the workflow of `workflows` named as `stored` is, or `stored` when there is none
Upserted(stored, workflows) ==
    IF \E i \in DOMAIN workflows : workflows[i].name = stored.name
    THEN LET i == CHOOSE i \in DOMAIN workflows : workflows[i].name = stored.name
         IN  [workflows[i] EXCEPT !.id = stored.id]
    ELSE stored

\* _register_workflows as an upsert: a workflow whose name the listing contains
\* is overwritten on the server with the synthesized definition
register_workflows_UpdatingExisting(workflows, store, nid, failAt, failSet) ==
    LET listing == workflows_iter(store, 1, failAt, <<>>)
        existing_workflows == { listing.items[k].name : k \in DOMAIN listing.items }
        updated == [k \in DOMAIN store |-> Upserted(store[k], workflows)]
        start == [store |-> store, nid |-> nid, registered |-> <<>>,
                  creates |-> <<>>, failed |-> <<>>]
    IN  IF listing.raised # "none"
        THEN [raised |-> listing.raised, pages |-> listing.pages,
              listed |-> "failed", listing |-> <<>>, listedWorkflows |-> <<>>]
                 @@ start
        ELSE [raised |-> "none", pages |-> listing.pages, listed |-> "ok",
              listing |-> [k \in DOMAIN listing.items |-> listing.items[k].name],
              listedWorkflows |-> listing.items]
                 @@ CreateLoop(workflows, 1, existing_workflows, failSet,
                               [start EXCEPT !.store = updated])

\* _register_workflows, lines 188-206
register_workflows(workflows, store, nid, failAt, failSet) ==
    LET listing == workflows_iter(store, 1, failAt, <<>>)
        existing_workflows == { listing.items[k].name : k \in DOMAIN listing.items }
        start == [store |-> store, nid |-> nid, registered |-> <<>>,
                  creates |-> <<>>, failed |-> <<>>]
    IN  IF listing.raised # "none"
        THEN [raised |-> listing.raised, pages |-> listing.pages,
              listed |-> "failed", listing |-> <<>>, listedWorkflows |-> <<>>]
                 @@ start
        ELSE [raised |-> "none", pages |-> listing.pages, listed |-> "ok",
              listing |-> [k \in DOMAIN listing.items |-> listing.items[k].name],
              listedWorkflows |-> listing.items]
                 @@ CreateLoop(workflows, 1, existing_workflows, failSet, start)

\* _json_handler without the default argument: the closure reads the loop
\* variable when it runs, which by then is the last handler of the loop
json_handler_for_LateBound(handlers, i) == handlers[Len(handlers)].func

\* _setup_routes, line 215: def _json_handler(json_data, handler=handler) binds
\* the handler of the current iteration; the binding is named by the callback
\* of the handler it holds
json_handler_for(handlers, i) == handlers[i].func

\* _setup_routes, lines 210-228: one add_json_endpoint call per handler that
\* has a url; with no backend the attribute lookup on None raises
RECURSIVE SetupLoop(_, _, _, _, _)
SetupLoop(handlers, i, kind, table, calls) ==
    IF i > Len(handlers)
    THEN [raised |-> "none", table |-> table, calls |-> calls]
    ELSE IF handlers[i].url = None
    THEN SetupLoop(handlers, i + 1, kind, table, calls)
    ELSE IF kind = "none"
    THEN [raised |-> "AttributeError", table |-> table, calls |-> calls]
    ELSE LET path == handlers[i].url[1]
             r == add_json_endpoint(kind, table, path, json_handler_for(handlers, i))
         IN  IF r.raised # "none"
             THEN [raised |-> r.raised, table |-> table,
                   calls |-> Append(calls, path)]
             ELSE SetupLoop(handlers, i + 1, kind, r.table, Append(calls, path))

\* _setup_routes looking up self.backend.add_json_endpoint before the loop
setup_routes_EagerBackendLookup(eh, kind, table) ==
    IF kind = "none"
    THEN [raised |-> "AttributeError", table |-> table, calls |-> <<>>]
    ELSE SetupLoop(AllHandlers(eh), 1, kind, table, <<>>)

setup_routes(eh, kind, table) == SetupLoop(AllHandlers(eh), 1, kind, table, <<>>)

\* init(), line 179: self._registered_workflows.extend(registered_workflows)
LedgerExtend(ledger, registered) == ledger \o registered

\* the indices of the synthesized workflows whose names the store does not hold
ToCreate(workflows, store) ==
    { i \in DOMAIN workflows :
        \A k \in DOMAIN store : store[k].name # workflows[i].name }

\* add_event_handler, line 84
add_event_handler(eh, handler) ==
    [eh EXCEPT ![handler.event_type] = Append(@, handler)]

\* a decorator applied to a callback named `name`: lines 92-94, 104-107
Decorate(event_type, filters, name) ==
    /\ NumHandlers(event_handlers) < MaxHandlers
    /\ event_handlers' =
           add_event_handler(event_handlers,
               EventHandler(<<event_type, Len(event_handlers[event_type]) + 1>>,
                            name, event_type, filters))
    /\ UNCHANGED <<backend, registered_workflows, routes, remote, nextId,
                   ncalls, nfaults, last, prev, payload, docResult, docFetches,
                   reqs, tasks>>

consumption_started ==
    \E use \in DecoratorUses(CONSUMPTION_STARTED) :
        Decorate(CONSUMPTION_STARTED, use[1], use[2])

document_added ==
    \E use \in DecoratorUses(DOCUMENT_ADDED) :
        Decorate(DOCUMENT_ADDED, use[1], use[2])

document_updated ==
    \E use \in DecoratorUses(DOCUMENT_UPDATED) :
        Decorate(DOCUMENT_UPDATED, use[1], use[2])

scheduled ==
    \E use \in DecoratorUses(SCHEDULED) :
        Decorate(SCHEDULED, use[1], use[2])

\* the record of an init() call that ended with `raised`
InitCall(raised, w, calls) ==
    [op |-> "init", raised |-> raised, nh |-> NumHandlers(event_handlers),
     pages |-> w.pages, listed |-> w.listed, listing |-> w.listing,
     listedWorkflows |-> w.listedWorkflows, creates |-> w.creates,
     created |-> IdsOf(w.registered), deletes |-> <<>>, failed |-> w.failed,
     routeCalls |-> calls, ledgerBefore |-> IdsOf(registered_workflows),
     remoteBefore |-> IdsOf(remote)]

NoRegister ==
    [pages |-> 0, listed |-> "no", listing |-> <<>>, listedWorkflows |-> <<>>,
     creates |-> <<>>, registered |-> <<>>,
     failed |-> <<>>]

\* PaperlessHooks.init, lines 135-186
init ==
    /\ ncalls < MaxCalls
    /\ ncalls' = ncalls + 1
    /\ LET s == SynthesizeAll(event_handlers, CONSUMPTION_STARTED, 1, <<>>)
       IN  IF s.raised # "none"
           THEN /\ event_handlers' = s.eh
                /\ last' = InitCall(s.raised, NoRegister, <<>>)
                /\ UNCHANGED <<registered_workflows, routes, remote, nextId,
                               nfaults>>
           ELSE IF s.workflows = <<>>
           THEN LET r == setup_routes(s.eh, backend, routes)
                IN  /\ event_handlers' = s.eh
                    /\ routes' = r.table
                    /\ last' = InitCall(r.raised, NoRegister, r.calls)
                    /\ UNCHANGED <<registered_workflows, remote, nextId,
                                   nfaults>>
           ELSE \E failAt \in 0 .. NumPages(remote) :
                \E failSet \in SUBSET ToCreate(s.workflows, remote) :
                    /\ failAt # 0 => failSet = {}
                    /\ nfaults' = nfaults + Cardinality(failSet)
                                     + (IF failAt # 0 THEN 1 ELSE 0)
                    /\ nfaults' <= MaxFaults
                    /\ nextId + Cardinality(ToCreate(s.workflows, remote)) <= MaxId + 1
                    /\ LET w == register_workflows(s.workflows, remote, nextId,
                                                   failAt, failSet)
                       IN  IF w.raised # "none"
                           THEN /\ event_handlers' = s.eh
                                /\ last' = InitCall(w.raised, w, <<>>)
                                /\ UNCHANGED <<registered_workflows, routes,
                                               remote, nextId>>
                           ELSE LET r == setup_routes(s.eh, backend, routes)
                                IN  /\ event_handlers' = s.eh
                                    /\ registered_workflows' =
                                           LedgerExtend(registered_workflows,
                                                        w.registered)
                                    /\ remote' = w.store
                                    /\ nextId' = w.nid
                                    /\ routes' = r.table
                                    /\ last' = InitCall(r.raised, w, r.calls)
    /\ prev' = Summary(last)
    /\ UNCHANGED <<backend, payload, docResult, docFetches, reqs, tasks>>

\* the delete loop with the try/except around the loop instead of inside it
RECURSIVE CleanupLoop_StoppingAtFailure(_, _, _, _)
CleanupLoop_StoppingAtFailure(ledger, i, failSet, acc) ==
    IF i > Len(ledger) THEN acc
    ELSE LET d == delete_workflow(ledger[i], acc.store, i \notin failSet)
             acc2 == [store   |-> d.store,
                      deletes |-> Append(acc.deletes, d.path),
                      failed  |-> IF d.raised = "none" THEN acc.failed
                                  ELSE Append(acc.failed, d.path)]
         IN  IF d.raised # "none" THEN acc2
             ELSE CleanupLoop_StoppingAtFailure(ledger, i + 1, failSet, acc2)

\* cleanup(), lines 232-237: one delete per ledger entry; a failed delete is
\* caught and logged
RECURSIVE CleanupLoop(_, _, _, _)
CleanupLoop(ledger, i, failSet, acc) ==
    IF i > Len(ledger) THEN acc
    ELSE LET d == delete_workflow(ledger[i], acc.store, i \notin failSet)
         IN  CleanupLoop(ledger, i + 1, failSet,
                 [store   |-> d.store,
                  deletes |-> Append(acc.deletes, d.path),
                  failed  |-> IF d.raised = "none" THEN acc.failed
                              ELSE Append(acc.failed, d.path)])

\* the ledger entries whose DELETE the server would carry out: a request that
\* the server refuses anyway fails the same way when it fails in transit
Deletable(ledger, store) ==
    { i \in DOMAIN ledger : ServerResolves(store, WorkflowPath(ledger[i])) }

\* cleanup(), line 239: self._registered_workflows.clear()
LedgerClear(ledger) == <<>>

\* PaperlessHooks.cleanup, lines 230-239
cleanup ==
    \E failSet \in SUBSET Deletable(registered_workflows, remote) :
        LET c == CleanupLoop(registered_workflows, 1, failSet,
                             [store |-> remote, deletes |-> <<>>, failed |-> <<>>])
        IN  /\ ncalls < MaxCalls
            /\ ncalls' = ncalls + 1
            /\ nfaults' = nfaults + Cardinality(failSet)
            /\ nfaults' <= MaxFaults
            /\ remote' = c.store
            /\ registered_workflows' = LedgerClear(registered_workflows)
            /\ last' = [NoCall EXCEPT !.op = "cleanup",
                                      !.nh = NumHandlers(event_handlers),
                                      !.deletes = c.deletes,
                                      !.failed = c.failed,
                                      !.ledgerBefore = IdsOf(registered_workflows),
                                      !.remoteBefore = IdsOf(remote)]
            /\ prev' = Summary(last)
            /\ UNCHANGED <<backend, event_handlers, routes, nextId,
                           payload, docResult, docFetches, reqs, tasks>>

-----------------------------------------------------------------------------
(* The specification of the reconciler.                                    *)

\* a workflow some other client stored on the server before this process ran
ForeignWorkflow(id, name) ==
    [id |-> Some(id), name |-> name, order |-> 0, enabled |-> TRUE,
     triggers |-> <<WorkflowTrigger(DOCUMENT_ADDED)>>, actions |-> <<>>]

\* the stores the process may find: empty, or an unrelated workflow and a
\* workflow under a handler's name (left by an earlier run)
InitialStores ==
    { <<>>,
      <<ForeignWorkflow(1, <<"manual-rule">>), ForeignWorkflow(2, WfName("a"))>> }

Init ==
    /\ backend \in Backends
    /\ event_handlers = [t \in TriggerTypes |-> <<>>]
    /\ registered_workflows = <<>>
    /\ routes = <<>>
    /\ remote \in InitialStores
    /\ nextId = Len(remote) + 1
    /\ ncalls = 0
    /\ nfaults = 0
    /\ last = NoCall
    /\ prev = Summary(NoCall)
    /\ payload = [doc_url |-> <<>>]
    /\ docResult = [op |-> "none", raised |-> "none", value |-> 0]
    /\ docFetches = <<>>
    /\ reqs = <<>>
    /\ tasks = <<>>

Next ==
    \/ consumption_started
    \/ document_added
    \/ document_updated
    \/ scheduled
    \/ init
    \/ cleanup

Spec == Init /\ [][Next]_vars

-----------------------------------------------------------------------------
(* src/paperless_hooks.py: DocumentAddedEvent / DocumentUpdatedEvent.      *)
(* doc_url is the tuple of its characters.                                 *)

DigitChars == <<"0", "1", "2", "3", "4", "5", "6", "7", "8", "9">>

IsDigit(c) == \E d \in DOMAIN DigitChars : DigitChars[d] = c

DigitValue(c) == (CHOOSE d \in DOMAIN DigitChars : DigitChars[d] = c) - 1

\* str.split("/"): the segments between the separators, empty ones included
RECURSIVE SplitLoop(_, _, _)
SplitLoop(s, cur, acc) ==
    IF s = <<>> THEN Append(acc, cur)
    ELSE IF Head(s) = "/"
    THEN SplitLoop(Tail(s), <<>>, Append(acc, cur))
    ELSE SplitLoop(Tail(s), Append(cur, Head(s)), acc)

split(s) == SplitLoop(s, <<>>, <<>>)

\* str.strip() as int() applies it
RECURSIVE LStrip(_)
LStrip(s) == IF s # <<>> /\ Head(s) = " " THEN LStrip(Tail(s)) ELSE s

RECURSIVE RStrip(_)
RStrip(s) ==
    IF s # <<>> /\ s[Len(s)] = " " THEN RStrip(SubSeq(s, 1, Len(s) - 1)) ELSE s

\* the digits of an int() literal, read left to right; an underscore is
\* allowed only between two digits.  -1 when the text is no such literal.
RECURSIVE DigitsLoop(_, _, _)
DigitsLoop(s, value, afterDigit) ==
    IF s = <<>> THEN (IF afterDigit THEN value ELSE -1)
    ELSE IF IsDigit(Head(s))
    THEN DigitsLoop(Tail(s), value * 10 + DigitValue(Head(s)), TRUE)
    ELSE IF Head(s) = "_" /\ afterDigit
    THEN DigitsLoop(Tail(s), value, FALSE)
    ELSE -1

\* int(text): surrounding whitespace stripped, an optional sign, then digits
int(text) ==
    LET t == RStrip(LStrip(text))
        signed == t # <<>> /\ Head(t) \in {"+", "-"}
        body == IF signed THEN Tail(t) ELSE t
        magnitude == DigitsLoop(body, 0, FALSE)
    IN  IF magnitude < 0
        THEN [raised |-> "ValueError", value |-> 0]
        ELSE [raised |-> "none",
              value |-> IF signed /\ Head(t) = "-" THEN 0 - magnitude
                        ELSE magnitude]

\* get_document_id reading the last segment, split("/")[-1]
get_document_id_LastSegment(event) ==
    LET parts == split(event.doc_url)
    IN  int(parts[Len(parts)])

\* get_document_id answering 0 where the segment is missing or no number
get_document_id_DefaultingToZero(event) ==
    LET parts == split(event.doc_url)
        parsed == IF Len(parts) < 2
                  THEN [raised |-> "IndexError", value |-> 0]
                  ELSE int(parts[Len(parts) - 1])
    IN  IF parsed.raised # "none"
        THEN [raised |-> "none", value |-> 0]
        ELSE parsed

\* DocumentAddedEvent.get_document_id, lines 25-27:
\* int(self._payload.doc_url.split("/")[-2])
get_document_id(event) ==
    LET parts == split(event.doc_url)
    IN  IF Len(parts) < 2
        THEN [raised |-> "IndexError", value |-> 0]
        ELSE int(parts[Len(parts) - 1])

\* PaperlessAPI.document / PaperlessAPI.download_document: one GET request
api_fetch(kind, doc_id, ok) ==
    [raised |-> IF ok THEN "none" ELSE "PaperlessAPIError",
     request |-> [kind |-> kind, doc_id |-> doc_id]]

\* get_document, line 30, and download_document, line 34: the identifier is
\* extracted first, then the REST client is asked for the document
FetchThroughEvent(kind, ok) ==
    LET id == get_document_id(payload)
    IN  IF id.raised # "none"
        THEN /\ docResult' = [op |-> kind, raised |-> id.raised, value |-> 0]
             /\ UNCHANGED docFetches
        ELSE LET f == api_fetch(kind, id.value, ok)
             IN  /\ docResult' = [op |-> kind, raised |-> f.raised,
                                  value |-> id.value]
                 /\ docFetches' = Append(docFetches, f.request)

call_get_document_id ==
    /\ Len(docFetches) < MaxFetches
    /\ LET id == get_document_id(payload)
       IN  docResult' = [op |-> "get_document_id", raised |-> id.raised,
                         value |-> id.value]
    /\ UNCHANGED <<payload, docFetches>>
    /\ UNCHANGED <<hookVars, dispatchVars>>

call_get_document ==
    /\ Len(docFetches) < MaxFetches
    /\ \E ok \in BOOLEAN : FetchThroughEvent("get_document", ok)
    /\ UNCHANGED payload
    /\ UNCHANGED <<hookVars, dispatchVars>>

call_download_document ==
    /\ Len(docFetches) < MaxFetches
    /\ \E ok \in BOOLEAN : FetchThroughEvent("download_document", ok)
    /\ UNCHANGED payload
    /\ UNCHANGED <<hookVars, dispatchVars>>

\* the characters the enumerated doc_url values are made of
UrlChars == {"/", "4", "2", "x", "-", "_", " "}

\* all texts over UrlChars of length n at most
RECURSIVE TextsUpTo(_)
TextsUpTo(n) ==
    IF n = 0 THEN {<<>>}
    ELSE LET shorter == TextsUpTo(n - 1)
         IN  shorter \cup { Append(t, c) : t \in shorter, c \in UrlChars }

ApiBase == <<"h", "t", "t", "p", "s", ":", "/", "/", "h", "o", "s", "t", "/", "a", "p", "i">>

DocumentsDir == <<"/", "d", "o", "c", "u", "m", "e", "n", "t", "s", "/">>

DownloadSeg == <<"d", "o", "w", "n", "l", "o", "a", "d">>

\* "https://host/api/documents/42/download/"
ExampleUrl == ApiBase \o DocumentsDir \o <<"4", "2">> \o <<"/">> \o DownloadSeg \o <<"/">>

\* "https://host/api/documents/42/"
DocumentUrl42 == ApiBase \o DocumentsDir \o <<"4", "2", "/">>

\* "{{doc_url}}": the placeholder as Paperless leaves it when it has no value
TemplateMarker == <<"{", "{", "d", "o", "c", "_", "u", "r", "l", "}", "}">>

\* server-style document URLs: an identifier segment and what follows it
ServerUrls ==
    { ApiBase \o DocumentsDir \o id \o tail :
        id \in { <<"4", "2">>, <<"7">>, <<"0", "7">>, <<"1", "0", "9">>, <<"x">>, <<>> },
        tail \in { <<"/">>,
                   <<"/">> \o DownloadSeg,
                   <<"/">> \o DownloadSeg \o <<"/">>,
                   <<"/">> \o DownloadSeg \o <<"/", "x", "/">>,
                   <<>> } }

DocUrls ==
    TextsUpTo(MaxUrlLen) \cup ServerUrls \cup {ExampleUrl, DocumentUrl42, TemplateMarker}

NoDocCall == [op |-> "none", raised |-> "none", value |-> 0]

\* an event context built by _json_handler around a delivered payload
DocInit ==
    /\ backend = "http_server"
    /\ event_handlers = [t \in TriggerTypes |-> <<>>]
    /\ registered_workflows = <<>>
    /\ routes = <<>>
    /\ remote = <<>>
    /\ nextId = 1
    /\ ncalls = 0
    /\ nfaults = 0
    /\ last = NoCall
    /\ prev = Summary(NoCall)
    /\ payload \in { [doc_url |-> u] : u \in DocUrls }
    /\ docResult = NoDocCall
    /\ docFetches = <<>>
    /\ reqs = <<>>
    /\ tasks = <<>>

DocNext ==
    \/ call_get_document_id
    \/ call_get_document
    \/ call_download_document

SpecDoc == DocInit /\ [][DocNext]_vars

-----------------------------------------------------------------------------
(* Dispatch: src/backends/*.py receive a POST and invoke the binding that  *)
(* _setup_routes registered; the binding builds the event and calls the    *)
(* callback.                                                               *)

\* at most this many POST requests are sent in one run
MaxRequests == 2

\* JSON values: an object is its members in order, each a name and a typed value
JsonObject(fields) == [type |-> "object", fields |-> fields]

JsonNothing == [type |-> "nothing", fields |-> <<>>]

Str(v) == [t |-> "str", v |-> v]

Num(v) == [t |-> "int", v |-> v]

\* the document url Paperless substitutes in its r-th delivery
DocUrlOf(r) == IF r = 1 THEN "u1" ELSE IF r = 2 THEN "u2" ELSE "u3"

\* the body Paperless sends as its r-th delivery
Delivery(r) ==
    [kind |-> "json",
     value |-> JsonObject(<< <<"doc_url", Str(DocUrlOf(r))>>, <<"unknown", Str("x")>> >>)]

\* the bodies a client may send as its r-th request: a delivery and text that
\* is no JSON; to the built-in server also no body and a JSON object with a
\* number where the schema has a string
Bodies(kind, r) ==
    { Delivery(r),
      [kind |-> "invalid", value |-> JsonNothing] }
    \cup (IF kind = "http_server"
          THEN { [kind |-> "empty", value |-> JsonNothing],
                 [kind |-> "json", value |-> JsonObject(<< <<"doc_url", Num("5")>> >>)] }
          ELSE {})

\* the paths clients post to; a program without a callback of the name leaves
\* the path unregistered
PostPaths == { RoutePath("a"), RoutePath("b") }

\* what the callback does when it is called
Outcomes == {"returns", "raises"}

\* do_POST parsing whatever it read: json.loads of an empty body raises
HttpServerDecode_ParsingEmptyBody(body) ==
    CASE body.kind = "empty" -> [raised |-> "JSONDecodeError", data |-> JsonNothing]
      [] body.kind = "invalid" -> [raised |-> "JSONDecodeError", data |-> JsonNothing]
      [] body.kind = "json" -> [raised |-> "none", data |-> body.value]

\* do_POST, lines 24-31: the body is read by Content-Length and parsed unless
\* it is empty
HttpServerDecode(body) ==
    CASE body.kind = "empty" -> [raised |-> "none", data |-> JsonObject(<<>>)]
      [] body.kind = "invalid" -> [raised |-> "JSONDecodeError", data |-> JsonNothing]
      [] body.kind = "json" -> [raised |-> "none", data |-> body.value]

\* a JSON value Python takes as false
Falsy(value) == value.fields = <<>>

\* FlaskBackend, line 24: request.get_json(force=True, silent=True) or {}
FlaskDecode(body) ==
    IF body.kind = "json" /\ ~Falsy(body.value)
    THEN [raised |-> "none", data |-> body.value]
    ELSE [raised |-> "none", data |-> JsonObject(<<>>)]

\* FastApiBackend, line 21: await request.json()
FastApiDecode(body) ==
    IF body.kind = "json"
    THEN [raised |-> "none", data |-> body.value]
    ELSE [raised |-> "JSONDecodeError", data |-> JsonNothing]

\* _json_handler, line 216: PlaceholderTemplates(**json_data): a value that is
\* no mapping cannot be unpacked, a member that is a field must be a string,
\* other members are ignored and absent fields keep their defaults
PlaceholderTemplatesFrom(json_data) ==
    IF json_data.type # "object"
    THEN [raised |-> "TypeError", tmpl |-> PlaceholderTemplates]
    ELSE IF \E k \in DOMAIN json_data.fields :
                /\ json_data.fields[k][1] \in DOMAIN PlaceholderTemplates
                /\ json_data.fields[k][2].t # "str"
    THEN [raised |-> "ValidationError", tmpl |-> PlaceholderTemplates]
    ELSE [raised |-> "none",
          tmpl |-> [f \in DOMAIN PlaceholderTemplates |->
                      IF \E k \in DOMAIN json_data.fields : json_data.fields[k][1] = f
                      THEN json_data.fields[
                               CHOOSE k \in DOMAIN json_data.fields :
                                   /\ json_data.fields[k][1] = f
                                   /\ \A m \in DOMAIN json_data.fields :
                                         json_data.fields[m][1] = f => m <= k][2].v
                      ELSE PlaceholderTemplates[f]]]

\* _json_handler, lines 217-225: the event passed to the callback
EventFor(handler, tmpl) ==
    CASE handler.event_type = DOCUMENT_ADDED ->
             [kind |-> "DocumentAddedEvent", payload |-> tmpl]
      [] handler.event_type = DOCUMENT_UPDATED ->
             [kind |-> "DocumentUpdatedEvent", payload |-> tmpl]
      [] handler.event_type = CONSUMPTION_STARTED ->
             [kind |-> "PlaceholderTemplates", payload |-> tmpl]
      [] handler.event_type = SCHEDULED ->
             [kind |-> "PlaceholderTemplates", payload |-> tmpl]

\* the handler object a binding holds
HandlerOf(eh, binding) == eh[binding[1]][binding[2]]

\* EventHandler.__call__ with the callback wrapped in try/except: what the
\* callback raises is dropped and the binding returns
call_Swallowing(handler, event, outcome) ==
    [handler |-> handler,
     invoked |-> [func |-> handler.func, event |-> event],
     raised |-> "none"]

\* EventHandler.__call__, lines 52-53: self.func(event); what the callback
\* raises leaves __call__, and the handler object is as it was
call(handler, event, outcome) ==
    [handler |-> handler,
     invoked |-> [func |-> handler.func, event |-> event],
     raised |-> IF outcome = "raises" THEN "CallbackError" ELSE "none"]

\* a router that runs every route registered for the path instead of the
\* first that matches
RouteFor_AllMatches(table, path) ==
    LET Matches(entry) == entry.path = path
        matching == SelectSeq(table, Matches)
    IN  [i \in DOMAIN matching |-> matching[i].handler]

\* the bindings a POST to `path` reaches: routes.get(path) of the built-in
\* server, the first matching route of the FastAPI router, the one rule of Flask
RouteFor(table, path) ==
    LET matching == { i \in DOMAIN table : table[i].path = path }
    IN  IF matching = {} THEN <<>>
        ELSE <<table[CHOOSE i \in matching : \A m \in matching : i <= m].handler>>

\* the invocation of a binding for request req, not yet started; outcome is
\* what the callback did once it was called
QueuedTask(req, binding, json_data) ==
    [req |-> req, binding |-> binding, json_data |-> json_data,
     stage |-> "queued", event |-> None, called |-> None, outcome |-> "none",
     raised |-> "none"]

\* the event kept in one slot shared by all invocations of the bindings: a
\* call reads what the latest invocation in flight has built
EventBound_SharedSlot(ts, k) ==
    LET inflight == { j \in DOMAIN ts : ts[j].stage = "built" }
    IN  ts[CHOOSE j \in inflight : \A m \in inflight : m <= j].event[1]

\* _json_handler, line 226: the event is the local variable of this invocation
EventBound(ts, k) == ts[k].event[1]

\* _json_handler, lines 216-225 for task k: the payload is decoded and the
\* event is built
Built(eh, ts, k) ==
    LET t == PlaceholderTemplatesFrom(ts[k].json_data)
    IN  IF t.raised # "none"
        THEN [ts[k] EXCEPT !.stage = "done", !.raised = t.raised]
        ELSE [ts[k] EXCEPT !.stage = "built",
                           !.event = Some(EventFor(HandlerOf(eh, ts[k].binding), t.tmpl))]

\* _json_handler, line 226 for task k: handler(event)
Called(eh, ts, k, outcome) ==
    LET c == call(HandlerOf(eh, ts[k].binding), EventBound(ts, k), outcome)
    IN  [task |-> [ts[k] EXCEPT !.stage = "done",
                                !.called = Some(c.invoked),
                                !.outcome = outcome,
                                !.raised = c.raised],
         handler |-> c.handler]

\* the registry with the handler object of `binding` as the call left it
WithHandler(eh, binding, handler) ==
    [eh EXCEPT ![binding[1]][binding[2]] = handler]

Request(path, body, status, raised) ==
    [path |-> path, body |-> body, status |-> status, raised |-> raised]

\* the program starts its server after it called hooks.init(): the usage of
\* HttpServerBackend, lines 58-63, is hooks.init() and then serve_forever()
Serving == last.op = "init"

\* _JsonRouteHandler.do_POST, lines 18-40; the server handles one request at a
\* time
do_POST ==
    /\ backend = "http_server"
    /\ Serving
    /\ Len(reqs) < MaxRequests
    /\ \E path \in PostPaths, body \in Bodies(backend, Len(reqs) + 1), outcome \in Outcomes :
          LET found == RouteFor(routes, path)
              d == HttpServerDecode(body)
              k == Len(tasks) + 1
              queued == Append(tasks, QueuedTask(Len(reqs) + 1, found[1], d.data))
              built == [queued EXCEPT ![k] = Built(event_handlers, queued, k)]
              c == Called(event_handlers, built, k, outcome)
          IN  IF found = <<>>
              THEN /\ reqs' = Append(reqs, Request(path, body, 404, "none"))
                   /\ UNCHANGED <<tasks, event_handlers>>
              ELSE IF d.raised # "none"
              THEN /\ reqs' = Append(reqs, Request(path, body, 400, "none"))
                   /\ UNCHANGED <<tasks, event_handlers>>
              ELSE IF built[k].stage = "done"
              THEN /\ reqs' = Append(reqs, Request(path, body, 500, "none"))
                   /\ tasks' = built
                   /\ UNCHANGED event_handlers
              ELSE /\ reqs' = Append(reqs, Request(path, body,
                                 IF c.task.raised = "none" THEN 200 ELSE 500, "none"))
                   /\ tasks' = [built EXCEPT ![k] = c.task]
                   /\ event_handlers' =
                          WithHandler(event_handlers, built[k].binding, c.handler)
    /\ UNCHANGED <<backend, registered_workflows, routes, remote, nextId, ncalls,
                   nfaults, last, prev, docVars>>

\* the invocations a webhook view starts for the bindings the path reaches
TasksFor(req, bindings, json_data) ==
    [i \in DOMAIN bindings |-> QueuedTask(req, bindings[i], json_data)]

\* FlaskBackend._webhook, lines 21-25, up to the call of json_handler; an
\* unknown path is answered by Flask.  Status 0: the response is still to come.
flask_webhook ==
    /\ backend = "flask"
    /\ Serving
    /\ Len(reqs) < MaxRequests
    /\ \E path \in PostPaths, body \in Bodies(backend, Len(reqs) + 1) :
          LET found == RouteFor(routes, path)
              d == FlaskDecode(body)
          IN  IF found = <<>>
              THEN /\ reqs' = Append(reqs, Request(path, body, 404, "none"))
                   /\ UNCHANGED tasks
              ELSE /\ reqs' = Append(reqs, Request(path, body, 0, "none"))
                   /\ tasks' = tasks \o TasksFor(Len(reqs) + 1, found, d.data)
    /\ UNCHANGED <<hookVars, docVars>>

\* FastApiBackend._webhook, lines 20-23: the handler is queued as a background
\* task and the request is answered
fastapi_webhook ==
    /\ backend = "fastapi"
    /\ Serving
    /\ Len(reqs) < MaxRequests
    /\ \E path \in PostPaths, body \in Bodies(backend, Len(reqs) + 1) :
          LET found == RouteFor(routes, path)
              d == FastApiDecode(body)
          IN  IF found = <<>>
              THEN /\ reqs' = Append(reqs, Request(path, body, 404, "none"))
                   /\ UNCHANGED tasks
              ELSE IF d.raised # "none"
              THEN /\ reqs' = Append(reqs, Request(path, body, 500, d.raised))
                   /\ UNCHANGED tasks
              ELSE /\ reqs' = Append(reqs, Request(path, body, 200, "none"))
                   /\ tasks' = tasks \o TasksFor(Len(reqs) + 1, found, d.data)
    /\ UNCHANGED <<hookVars, docVars>>

\* the response Flask writes when the view of task k ended; FastAPI has
\* answered before the background task ran
Answered(rs, task) ==
    IF backend = "flask"
    THEN [rs EXCEPT ![task.req].status = IF task.raised = "none" THEN 200 ELSE 500,
                    ![task.req].raised = task.raised]
    ELSE rs

\* _json_handler, lines 216-225, in a request thread or a background task
json_handler_build ==
    /\ backend \in {"flask", "fastapi"}
    /\ \E k \in DOMAIN tasks :
          /\ tasks[k].stage = "queued"
          /\ LET b == Built(event_handlers, tasks, k)
             IN  /\ tasks' = [tasks EXCEPT ![k] = b]
                 /\ reqs' = IF b.stage = "done" THEN Answered(reqs, b) ELSE reqs
    /\ UNCHANGED <<hookVars, docVars>>

\* _json_handler, line 226, in a request thread or a background task
json_handler_call ==
    /\ backend \in {"flask", "fastapi"}
    /\ \E k \in DOMAIN tasks, outcome \in Outcomes :
          /\ tasks[k].stage = "built"
          /\ LET c == Called(event_handlers, tasks, k, outcome)
             IN  /\ tasks' = [tasks EXCEPT ![k] = c.task]
                 /\ reqs' = Answered(reqs, c.task)
                 /\ event_handlers' =
                        WithHandler(event_handlers, tasks[k].binding, c.handler)
    /\ UNCHANGED <<backend, registered_workflows, routes, remote, nextId, ncalls,
                   nfaults, last, prev, docVars>>

\* the decorator uses of a program, in the order the module applies them
Programs ==
    { << <<DOCUMENT_ADDED, NoFilters, "a">>, <<DOCUMENT_UPDATED, NoFilters, "b">> >>,
      << <<CONSUMPTION_STARTED, PdfOnly, "a">>, <<SCHEDULED, NoFilters, "b">> >>,
      << <<DOCUMENT_ADDED, NoFilters, "a">>, <<CONSUMPTION_STARTED, PdfOnly, "a">> >> }

\* the registry after the decorators of a program ran
RECURSIVE Registered(_, _)
Registered(eh, uses) ==
    IF uses = <<>> THEN eh
    ELSE LET u == Head(uses)
         IN  Registered(add_event_handler(eh,
                            EventHandler(<<u[1], Len(eh[u[1]]) + 1>>, u[3], u[1], u[2])),
                        Tail(uses))

\* a process whose module has been imported: the decorators have run, init()
\* has not, and the backend is one that serves requests
DispatchInit ==
    /\ backend \in Backends \ {"none"}
    /\ \E program \in Programs :
          event_handlers = Registered([t \in TriggerTypes |-> <<>>], program)
    /\ registered_workflows = <<>>
    /\ routes = <<>>
    /\ remote = <<>>
    /\ nextId = 1
    /\ ncalls = 0
    /\ nfaults = 0
    /\ last = NoCall
    /\ prev = Summary(NoCall)
    /\ payload = [doc_url |-> <<>>]
    /\ docResult = NoDocCall
    /\ docFetches = <<>>
    /\ reqs = <<>>
    /\ tasks = <<>>

\* hooks.init() as the program calls it, before its server serves
startup == reqs = <<>> /\ init

DispatchNext ==
    \/ startup
    \/ do_POST
    \/ flask_webhook
    \/ fastapi_webhook
    \/ json_handler_build
    \/ json_handler_call

SpecDispatch == DispatchInit /\ [][DispatchNext]_vars

-----------------------------------------------------------------------------
(* init() and cleanup() of programs with two handlers of one trigger type. *)

\* programs that apply one decorator more than once with different filters:
\* to callbacks of different names, to callbacks of one name, to three
\* callbacks, and with a filter key that is no trigger field
PairPrograms ==
    { << <<DOCUMENT_ADDED, NoFilters, "a">>, <<DOCUMENT_ADDED, PdfOnly, "b">> >>,
      << <<DOCUMENT_UPDATED, NoFilters, "b">>, <<DOCUMENT_UPDATED, PdfOnly, "b">> >>,
      << <<SCHEDULED, NoFilters, "a">>, <<SCHEDULED, PdfOnly, "b">> >>,
      << <<DOCUMENT_ADDED, NoFilters, "a">>, <<DOCUMENT_ADDED, PdfOnly, "b">>,
         <<DOCUMENT_ADDED, PdfOnly, "a">> >>,
      << <<CONSUMPTION_STARTED, PdfOnly, "a">>, <<CONSUMPTION_STARTED, BogusKey, "b">> >> }

\* a process whose module has been imported, before its first call
PairInit ==
    /\ backend \in Backends
    /\ \E program \in PairPrograms :
          event_handlers = Registered([t \in TriggerTypes |-> <<>>], program)
    /\ registered_workflows = <<>>
    /\ routes = <<>>
    /\ remote \in InitialStores
    /\ nextId = Len(remote) + 1
    /\ ncalls = 0
    /\ nfaults = 0
    /\ last = NoCall
    /\ prev = Summary(NoCall)
    /\ payload = [doc_url |-> <<>>]
    /\ docResult = NoDocCall
    /\ docFetches = <<>>
    /\ reqs = <<>>
    /\ tasks = <<>>

PairNext ==
    \/ init
    \/ cleanup

SpecPair == PairInit /\ [][PairNext]_vars

-----------------------------------------------------------------------------
(* Vocabulary of the properties.                                           *)

Handlers == Range(AllHandlers(event_handlers))

\* the most recent call was init() and no decorator ran since
InitJustRan == last.op = "init" /\ last.nh = NumHandlers(event_handlers)

DistinctNames ==
    \A i, j \in DOMAIN AllHandlers(event_handlers) :
        i # j => AllHandlers(event_handlers)[i].name # AllHandlers(event_handlers)[j].name

Count(seq, x) == Cardinality({ i \in DOMAIN seq : seq[i] = x })

RouteCount(path) == Cardinality({ i \in DOMAIN routes : routes[i].path = path })

WorkflowCount(name) == Cardinality({ i \in DOMAIN remote : remote[i].name = name })

\* the route paths of all handlers, in the order _setup_routes visits them
HandlerPaths ==
    [k \in DOMAIN AllHandlers(event_handlers) |->
        RoutePath(AllHandlers(event_handlers)[k].name)]

\* the workflow names of all handlers that the listing did not contain
AbsentNames ==
    SelectSeq([k \in DOMAIN AllHandlers(event_handlers) |->
                  WfName(AllHandlers(event_handlers)[k].name)],
              LAMBDA n : n \notin Range(last.listing))

\* the filter fields of WorkflowTrigger
FilterFields == {"filter_filename", "filter_path"}

-----------------------------------------------------------------------------
(* C1.  Idempotence of init().                                             *)

\* C1 as stated: for a fixed set of handlers with distinct names, if every
\* create call of the first init() succeeded, the second init() issues no
\* create call
C1_Original ==
    (/\ prev.op = "init" /\ InitJustRan /\ prev.nh = last.nh
     /\ DistinctNames
     /\ prev.nfailed = 0)
    => last.creates = <<>>

\* C1, amended: for a fixed set of handlers with distinct names, if the first
\* init() obtained the remote listing and every create call it issued
\* succeeded, then the second init() issues no create call and over both calls
\* every workflow name is created at most once
C1_InitIdempotent ==
    (/\ prev.op = "init" /\ InitJustRan /\ prev.nh = last.nh
     /\ DistinctNames
     /\ prev.listed = "ok" /\ prev.nfailed = 0)
    => /\ last.creates = <<>>
       /\ \A n \in Range(prev.creates) : Count(prev.creates \o last.creates, n) = 1

\* two init() calls, the first of which created two workflows
C1_Witness ==
    /\ prev.op = "init" /\ InitJustRan /\ prev.nh = last.nh
    /\ DistinctNames
    /\ prev.listed = "ok" /\ prev.nfailed = 0
    /\ Len(prev.creates) = 2
    /\ last.listed = "ok"

-----------------------------------------------------------------------------
(* C2.  One route and one workflow per handler after init().               *)

\* C2 as stated: after an init() that did not raise, every handler has exactly
\* one route at "/" + name and exactly one remote workflow named prefix + name
C2_Original ==
    (InitJustRan /\ last.raised = "none")
    => \A h \in Handlers :
          /\ RouteCount(RoutePath(h.name)) = 1
          /\ WorkflowCount(WfName(h.name)) = 1

\* C2, amended: after an init() that did not raise, every handler has at least
\* one route at "/" + name (exactly one with the built-in HTTP server backend,
\* and exactly one registration per handler was issued by the call), and, when
\* handler names are pairwise distinct, exactly one remote workflow named
\* prefix + name unless the create call for it failed in this call, in which
\* case there is none
C2_RouteAndWorkflowPerHandler ==
    (InitJustRan /\ last.raised = "none")
    => /\ last.routeCalls = HandlerPaths
       /\ \A h \in Handlers :
             /\ RouteCount(RoutePath(h.name)) >= 1
             /\ backend = "http_server" => RouteCount(RoutePath(h.name)) = 1
             /\ DistinctNames =>
                   WorkflowCount(WfName(h.name)) =
                       IF WfName(h.name) \in Range(last.failed) THEN 0 ELSE 1

\* an init() that returned with one workflow found on the server and one
\* created by the call
C2_Witness ==
    /\ InitJustRan /\ last.raised = "none"
    /\ last.nh = 2 /\ DistinctNames
    /\ Len(last.created) = 1 /\ last.failed = <<>>
    /\ \A h \in Handlers : WorkflowCount(WfName(h.name)) = 1

-----------------------------------------------------------------------------
(* C3.  cleanup() removes what init() created.                             *)

\* C3: after init() followed by cleanup() the server holds exactly the
\* workflows it held before init()
C3_CleanupRestoresStore ==
    (last.op = "cleanup" /\ prev.op = "init" /\ prev.raised = "none")
    => IdsOf(remote) = prev.remoteBefore

-----------------------------------------------------------------------------
(* C6.  Invalid filter keys.                                               *)

\* C6: no handler whose filters hold a key that is no trigger-filter field is
\* ever in the registry
C6_InvalidKeyRejected ==
    \A h \in Handlers :
        \A k \in DOMAIN h.filters : h.filters[k][1] \in FilterFields

-----------------------------------------------------------------------------
(* C4, C5.  Document-ID extraction.                                        *)

HasSlash(u) == \E i \in DOMAIN u : u[i] = "/"

LastSlash(u) == CHOOSE i \in DOMAIN u : u[i] = "/" /\ \A k \in i + 1 .. Len(u) : u[k] # "/"

\* the text between the last two separators, or from the start to the only one
SecondToLastSegment(u) ==
    LET j == LastSlash(u)
        before == { i \in 1 .. j - 1 : u[i] = "/" }
        i == IF before = {} THEN 0
             ELSE CHOOSE m \in before : \A k \in before : k <= m
    IN  SubSeq(u, i + 1, j - 1)

AllDigits(seg) == seg # <<>> /\ \A k \in DOMAIN seg : IsDigit(seg[k])

RECURSIVE Pow10(_)
Pow10(n) == IF n = 0 THEN 1 ELSE 10 * Pow10(n - 1)

\* the number a decimal numeral denotes: the sum of digit * 10^position
RECURSIVE PositionalSum(_, _)
PositionalSum(seg, k) ==
    IF k > Len(seg) THEN 0
    ELSE DigitValue(seg[k]) * Pow10(Len(seg) - k) + PositionalSum(seg, k + 1)

\* an integer literal as int() reads one: blanks around an optionally signed
\* run of digits in which single underscores may separate digits
IsIntLiteral(seg) ==
    \E a, b \in DOMAIN seg :
        /\ a <= b
        /\ \A k \in DOMAIN seg : (k < a \/ k > b) => seg[k] = " "
        /\ seg[a] # " " /\ seg[b] # " "
        /\ LET first == IF seg[a] \in {"+", "-"} THEN a + 1 ELSE a
           IN  /\ first <= b
               /\ IsDigit(seg[first]) /\ IsDigit(seg[b])
               /\ \A k \in first .. b :
                     \/ IsDigit(seg[k])
                     \/ seg[k] = "_" /\ seg[k - 1] # "_"

\* doc_url has no second-to-last segment, or one that is no integer literal
Unparsable(u) == ~HasSlash(u) \/ ~IsIntLiteral(SecondToLastSegment(u))

\* C4 as stated: for "https://host/api/documents/42/download/"
\* get_document_id() returns 42
C4_Original ==
    (docResult.op = "get_document_id" /\ payload.doc_url = ExampleUrl)
    => docResult.raised = "none" /\ docResult.value = 42

\* C4, amended: when the second-to-last "/"-separated segment of doc_url is a
\* decimal numeral, get_document_id() returns the number it denotes; for
\* "https://host/api/documents/42/" it returns 42
C4_DocumentIdExtracted ==
    docResult.op = "get_document_id"
    => /\ (HasSlash(payload.doc_url) /\ AllDigits(SecondToLastSegment(payload.doc_url)))
          => /\ docResult.raised = "none"
             /\ docResult.value = PositionalSum(SecondToLastSegment(payload.doc_url), 1)
       /\ payload.doc_url = DocumentUrl42
          => docResult.raised = "none" /\ docResult.value = 42

\* get_document_id() has run on "https://host/api/documents/42/" and returned 42
C4_Witness ==
    /\ payload.doc_url = DocumentUrl42
    /\ docResult = [op |-> "get_document_id", raised |-> "none", value |-> 42]

\* C5 as stated: on an unparsable doc_url the three methods fail with
\* PayloadError and no document request is issued
C5_Original ==
    (docResult.op # "none" /\ Unparsable(payload.doc_url))
    => docResult.raised = "PayloadError" /\ docFetches = <<>>

\* C5, amended: on an unparsable doc_url the three methods fail, with
\* IndexError when doc_url holds no "/" and with ValueError when its
\* second-to-last segment is no integer literal, and no document request is
\* issued
C5_UnparsableUrlFails ==
    (docResult.op # "none" /\ Unparsable(payload.doc_url))
    => /\ docResult.raised =
              IF HasSlash(payload.doc_url) THEN "ValueError" ELSE "IndexError"
       /\ docFetches = <<>>

\* get_document() has run on the unsubstituted template marker
C5_Witness ==
    /\ payload.doc_url = TemplateMarker
    /\ docResult.op = "get_document"
    /\ docResult.raised = "IndexError"
    /\ docFetches = <<>>

-----------------------------------------------------------------------------
(* C7.  Best-effort creation.                                              *)

\* C7: in an init() that obtained the listing, a create call is issued for
\* every handler workflow the listing did not contain, in order, whichever of
\* them fail; the ledger gains exactly the workflows whose create succeeded;
\* init() raises only if the backend refuses a route, and otherwise registers
\* a route for every handler
C7_BestEffortCreation ==
    (InitJustRan /\ last.listed = "ok")
    => /\ last.creates = AbsentNames
       /\ Len(last.created) = Len(last.creates) - Len(last.failed)
       /\ IdsOf(registered_workflows) = last.ledgerBefore \o last.created
       /\ \A k \in DOMAIN last.created :
             \E i \in DOMAIN remote :
                 /\ remote[i].id = Some(last.created[k])
                 /\ remote[i].name \in Range(last.creates)
       /\ last.raised \in {"none", "AttributeError", "AssertionError"}
       /\ last.raised = "AttributeError" => backend = "none"
       /\ last.raised = "AssertionError" => backend = "flask"
       /\ last.raised = "none" => last.routeCalls = HandlerPaths

\* an init() whose first create failed and whose second succeeded, and which
\* registered both routes
C7_Witness ==
    /\ InitJustRan /\ last.listed = "ok" /\ last.raised = "none"
    /\ Len(last.creates) = 2
    /\ last.failed = <<last.creates[1]>>
    /\ Len(last.created) = 1
    /\ Len(last.routeCalls) = 2

-----------------------------------------------------------------------------
(* C8.  Failure of the listing.                                            *)

\* C8: an init() whose listing failed raises, issues no create call, leaves
\* ledger and server as they were and registers no route; an init() that finds
\* every handler workflow on the server raises only if the backend refuses a
\* route
C8_ListingFailureAborts ==
    /\ (InitJustRan /\ last.listed = "failed")
       => /\ last.nh >= 1
          /\ last.raised = "PaperlessAPIError"
          /\ last.creates = <<>>
          /\ IdsOf(registered_workflows) = last.ledgerBefore
          /\ IdsOf(remote) = last.remoteBefore
          /\ last.routeCalls = <<>>
    /\ (InitJustRan /\ last.listed = "ok" /\ AbsentNames = <<>>)
       => /\ last.creates = <<>>
          /\ last.raised \in {"none", "AttributeError", "AssertionError"}
          /\ last.raised = "AttributeError" => backend = "none"
          /\ last.raised = "AssertionError" => backend = "flask"

\* an init() whose request for the second listing page failed
C8_Witness ==
    /\ InitJustRan /\ last.listed = "failed"
    /\ last.pages = 2
    /\ last.raised = "PaperlessAPIError"

-----------------------------------------------------------------------------
(* C9.  cleanup() is best-effort and drains the ledger.                    *)

-----------------------------------------------------------------------------
(* C10.  init() without handlers.                                          *)

\* C10: an init() with no handler registered does not raise, issues no
\* listing, create or delete call, registers no route and leaves the ledger
\* empty, with or without a backend
C10_InitWithoutHandlersIsNoOp ==
    (last.op = "init" /\ last.nh = 0)
    => /\ last.raised = "none"
       /\ last.pages = 0 /\ last.listed = "no"
       /\ last.creates = <<>> /\ last.deletes = <<>>
       /\ last.routeCalls = <<>>
       /\ last.ledgerBefore = <<>>
       /\ registered_workflows = <<>>
       /\ IdsOf(remote) = last.remoteBefore

\* an init() with no handler and no backend
C10_Witness ==
    /\ last.op = "init" /\ last.nh = 0
    /\ backend = "none"
    /\ last.raised = "none"

-----------------------------------------------------------------------------
(* C11.  Workflows found on the server are left alone.                     *)

\* C11: an init() that obtained the listing issues no delete call, and every
\* workflow the listing returned is still stored exactly as listed, its name
\* is in no create call and its identifier is not among the ledger entries
\* the call added, whatever the handler of that name synthesizes
C11_ExistingLeftUntouched ==
    (last.op = "init" /\ last.listed = "ok")
    => /\ last.deletes = <<>>
       /\ \A k \in DOMAIN last.listedWorkflows :
             LET w == last.listedWorkflows[k]
             IN  /\ w \in Range(remote)
                 /\ w.name \notin Range(last.creates)
                 /\ w.id[1] \notin Range(last.created)
                 /\ \A j \in DOMAIN registered_workflows :
                       registered_workflows[j].id = w.id
                       => w.id[1] \in Range(last.ledgerBefore)

\* an init() that found on the server a workflow of a handler's name whose
\* trigger differs from the one synthesized for the handler, and created the
\* workflow of another handler
C11_Witness ==
    /\ last.op = "init" /\ last.listed = "ok" /\ last.raised = "none"
    /\ Len(last.creates) = 1
    /\ \E h \in Handlers :
          /\ h.workflow # None
          /\ \E k \in DOMAIN last.listedWorkflows :
                /\ last.listedWorkflows[k].name = WfName(h.name)
                /\ last.listedWorkflows[k].triggers # h.workflow[1].triggers
                /\ last.listedWorkflows[k] \in Range(remote)

-----------------------------------------------------------------------------
(* C14.  Shape of a synthesized workflow.                                  *)

\* the filter value a handler passes for a trigger field, None when it passes none
FilterOf(h, field) ==
    IF \E k \in DOMAIN h.filters : h.filters[k][1] = field
    THEN Some(h.filters[CHOOSE k \in DOMAIN h.filters : h.filters[k][1] = field][2])
    ELSE None

\* workflow w is the definition the claim describes for handler h
WellFormedFor(w, h) ==
    /\ w.name = WfName(h.name)
    /\ Len(w.triggers) = 1
    /\ w.triggers[1].type = Some(h.event_type)
    /\ \A field \in FilterFields : w.triggers[1][field] = FilterOf(h, field)
    /\ Len(w.actions) = 1
    /\ w.actions[1].type = WEBHOOK_WITH_CONFIG
    /\ w.actions[1].webhook.url = <<webhook_base_url, "/", h.name>>
    /\ w.actions[1].webhook.as_json = TRUE
    /\ w.actions[1].webhook.include_document = FALSE
    /\ w.actions[1].webhook.params = PlaceholderTemplates

\* C14: the workflow init() synthesized for a handler has one trigger of the
\* handler's type carrying the handler's filters, one webhook action with url
\* base + "/" + name, JSON delivery, no document and the whole placeholder
\* template as params, and the name prefix + name; every workflow this
\* instance created is such a workflow, up to the identifier the server gave it
C14_SynthesizedWorkflowShape ==
    /\ \A h \in Handlers : h.workflow # None => WellFormedFor(h.workflow[1], h)
    /\ \A k \in DOMAIN registered_workflows :
          \E h \in Handlers :
              /\ h.workflow # None
              /\ [registered_workflows[k] EXCEPT !.id = None] = h.workflow[1]

\* an init() that synthesized and created the workflows of a
\* consumption-started handler with a filter and of a scheduled handler
C14_Witness ==
    /\ InitJustRan /\ last.raised = "none"
    /\ Len(registered_workflows) = 2
    /\ \E h \in Handlers :
          h.event_type = CONSUMPTION_STARTED /\ h.filters = PdfOnly /\ h.workflow # None
    /\ \E h \in Handlers : h.event_type = SCHEDULED /\ h.workflow # None

-----------------------------------------------------------------------------
(* C15.  Handlers of one trigger type are never merged.                    *)

\* positions i # j of two handlers of one trigger type with different filters
SameTypePairs ==
    { p \in (DOMAIN AllHandlers(event_handlers)) \X (DOMAIN AllHandlers(event_handlers)) :
        /\ p[1] # p[2]
        /\ AllHandlers(event_handlers)[p[1]].event_type
              = AllHandlers(event_handlers)[p[2]].event_type
        /\ AllHandlers(event_handlers)[p[1]].filters
              # AllHandlers(event_handlers)[p[2]].filters }

\* what the claim says of two such handlers g and h after init() went through
\* the handlers: two workflows, each with its own filters and url, and two
\* create calls when the listing held neither name
SeparateWorkflows(g, h) ==
    /\ g.workflow # None /\ h.workflow # None
    /\ \A field \in FilterFields :
          /\ g.workflow[1].triggers[1][field] = FilterOf(g, field)
          /\ h.workflow[1].triggers[1][field] = FilterOf(h, field)
    /\ g.workflow[1].actions[1].webhook.url = <<webhook_base_url, "/", g.name>>
    /\ h.workflow[1].actions[1].webhook.url = <<webhook_base_url, "/", h.name>>
    /\ (/\ last.listed = "ok"
        /\ WfName(g.name) \notin Range(last.listing)
        /\ WfName(h.name) \notin Range(last.listing))
       => \E i, j \in DOMAIN last.creates :
              /\ i # j
              /\ last.creates[i] = WfName(g.name)
              /\ last.creates[j] = WfName(h.name)

\* C15 as stated: two handlers of one trigger type with different filters get
\* two workflows of two different names
C15_Original ==
    (InitJustRan /\ last.raised # "ValueError")
    => \A p \in SameTypePairs :
          LET g == AllHandlers(event_handlers)[p[1]]
              h == AllHandlers(event_handlers)[p[2]]
          IN  /\ SeparateWorkflows(g, h)
              /\ g.workflow[1].name # h.workflow[1].name

\* C15, amended: two handlers of one trigger type with different filters get
\* two workflows, each with its own filters and webhook url, and two create
\* calls when neither name is on the server; the two names differ exactly when
\* the names of the two callbacks differ; an init() that raises on a filter key
\* issues no create call
C15_NeverMerged ==
    /\ (InitJustRan /\ last.raised = "ValueError") => last.creates = <<>>
    /\ (InitJustRan /\ last.raised # "ValueError")
       => \A p \in SameTypePairs :
             LET g == AllHandlers(event_handlers)[p[1]]
                 h == AllHandlers(event_handlers)[p[2]]
             IN  /\ SeparateWorkflows(g, h)
                 /\ (g.workflow[1].name # h.workflow[1].name) <=> (g.name # h.name)
                 /\ g.name # h.name
                    => g.workflow[1].actions[1].webhook.url
                           # h.workflow[1].actions[1].webhook.url

\* an init() over two document-added handlers with different filters and
\* different names that issued two create calls
C15_Witness ==
    /\ InitJustRan /\ last.raised = "none"
    /\ SameTypePairs # {}
    /\ DistinctNames
    /\ Len(last.creates) = 2 /\ last.failed = <<>>

-----------------------------------------------------------------------------
(* C17.  The ledger.                                                       *)

\* C17: every ledger entry is the identifier of a workflow this instance
\* created: the path cleanup() builds from it is /api/workflows/<id>/
C17_LedgerHoldsIdentifiers ==
    \A k \in DOMAIN registered_workflows :
        WorkflowPath(registered_workflows[k])[2].kind = "int"

-----------------------------------------------------------------------------
(* Dispatch of inbound requests.                                           *)

\* the invocations request r started
TasksOf(r) == { k \in DOMAIN tasks : tasks[k].req = r }

\* request r was a POST to a path the backend held a route for
Routed(r) == reqs[r].status # 404

\* the body of request r is a JSON object whose members are strings
FitsSchema(r) ==
    /\ reqs[r].body.kind = "json"
    /\ reqs[r].body.value.type = "object"
    /\ \A k \in DOMAIN reqs[r].body.value.fields :
          reqs[r].body.value.fields[k][2].t = "str"

\* the placeholder payload a body decodes to: the members that are fields,
\* the defaults for the fields the body has no member for
DecodedFrom(body) ==
    [f \in DOMAIN PlaceholderTemplates |->
        IF \E k \in DOMAIN body.value.fields : body.value.fields[k][1] = f
        THEN LET k == CHOOSE k \in DOMAIN body.value.fields :
                          body.value.fields[k][1] = f
             IN  body.value.fields[k][2].v
        ELSE PlaceholderTemplates[f]]

\* the placeholder payload decoded from the body of request r
DecodedPayload(r) == DecodedFrom(reqs[r].body)

\* the context a callback of trigger type event_type is to receive for payload
ContextOf(event_type, decoded) ==
    IF event_type = DOCUMENT_ADDED
    THEN [kind |-> "DocumentAddedEvent", payload |-> decoded]
    ELSE IF event_type = DOCUMENT_UPDATED
    THEN [kind |-> "DocumentUpdatedEvent", payload |-> decoded]
    ELSE [kind |-> "PlaceholderTemplates", payload |-> decoded]

\* request r invoked the callback of h and no other: one invocation of h's
\* binding, which once finished has called h's callback once with h's context
DeliveredTo(r, h) ==
    /\ Cardinality(TasksOf(r)) = 1
    /\ \A k \in TasksOf(r) :
          /\ tasks[k].binding = h.func
          /\ tasks[k].stage = "done" =>
                tasks[k].called =
                    Some([func |-> h.func,
                          event |-> ContextOf(h.event_type, DecodedPayload(r))])

\* C12 as stated: every delivery of a JSON payload to the route "/" + h.name
\* invokes the callback of h exactly once, no other callback, with the context
\* of h's trigger type, whatever handlers are registered together
C12_Original ==
    \A r \in DOMAIN reqs : \A h \in Handlers :
        (Routed(r) /\ reqs[r].path = RoutePath(h.name) /\ reqs[r].body.kind = "json")
            => DeliveredTo(r, h)

\* C12: when the callback names are pairwise distinct, every delivery of a JSON
\* object whose members are strings to the route "/" + h.name starts exactly
\* one invocation, of h's binding, which calls h's callback once with a
\* document-added context for DOCUMENT_ADDED, a document-updated context for
\* DOCUMENT_UPDATED and the decoded payload itself for CONSUMPTION_STARTED and
\* SCHEDULED, each built from the payload of that delivery
C12_CorrectRouting ==
    DistinctNames =>
        \A r \in DOMAIN reqs : \A h \in Handlers :
            (Routed(r) /\ reqs[r].path = RoutePath(h.name) /\ FitsSchema(r))
                => DeliveredTo(r, h)

\* both handlers of a program of two trigger types have been delivered to, and
\* each callback has been called with the context of its own type
C12_Witness ==
    /\ DistinctNames
    /\ Len(reqs) = 2
    /\ reqs[1].path # reqs[2].path
    /\ \A r \in DOMAIN reqs :
          /\ Routed(r) /\ FitsSchema(r)
          /\ \E k \in TasksOf(r) : tasks[k].stage = "done" /\ tasks[k].called # None
    /\ \E k \in DOMAIN tasks : tasks[k].called # None
                                /\ tasks[k].called[1].event.kind = "PlaceholderTemplates"

\* a step of a backend serving a request or of a binding running
DispatchStep == tasks' # tasks \/ reqs' # reqs

\* the invocations in which the callback raised
RaisedIn(ts) == { k \in DOMAIN ts : ts[k].outcome = "raises" }

\* C13: what a callback raises leaves the binding as it was raised and reaches
\* the adapter that invoked the binding (the built-in server answers 500, the
\* Flask view ends with the exception), and no step of a dispatch changes the
\* handler registry or the ledger
C13_CallbackErrorPropagates ==
    [][DispatchStep =>
          /\ event_handlers' = event_handlers
          /\ registered_workflows' = registered_workflows
          /\ \A k \in RaisedIn(tasks') :
                /\ tasks'[k].raised = "CallbackError"
                /\ backend = "http_server" => reqs'[tasks'[k].req].status = 500
                /\ backend = "flask" => reqs'[tasks'[k].req].raised = "CallbackError"]_vars

\* a callback raised while the ledger held a workflow, and a later dispatch ran
C13_Witness ==
    /\ registered_workflows # <<>>
    /\ Len(tasks) = 2
    /\ tasks[1].outcome = "raises" /\ tasks[1].raised = "CallbackError"
    /\ tasks[2].outcome = "returns"

CalledIn(ts) == { k \in DOMAIN ts : ts[k].called # None }

\* C18: however the invocations of the bindings interleave, each callback that
\* is called receives the context of its own handler's trigger type built
\* from the payload of its own request, and no step of a dispatch changes the
\* handler registry, the ledger or the handler a route is bound to
C18_ConcurrentDispatchSafe ==
    [][DispatchStep =>
          /\ event_handlers' = event_handlers
          /\ registered_workflows' = registered_workflows
          /\ routes' = routes
          /\ \A k \in CalledIn(tasks') :
                tasks'[k].called[1] =
                    [func |-> tasks'[k].binding,
                     event |-> ContextOf(
                                 HandlerOf(event_handlers, tasks'[k].binding).event_type,
                                 DecodedFrom(reqs'[tasks'[k].req].body))]]_vars

\* two invocations for different handlers overlapped: the second was called
\* with its own context while the first had built its event and not yet
\* called its callback
C18_Witness ==
    /\ backend \in {"flask", "fastapi"}
    /\ Len(tasks) = 2
    /\ tasks[1].binding # tasks[2].binding
    /\ tasks[1].stage = "built"
    /\ tasks[2].stage = "done" /\ tasks[2].called # None
    /\ tasks[1].event[1].payload.doc_url # tasks[2].called[1].event.payload.doc_url

\* the invocations a step started
StartedBy(before, after) == { k \in DOMAIN after : k > Len(before) }

\* the response of the built-in server to the request a step served, given
\* the routes the server held when the request arrived
ServedAsSpecified(q, started, ts, table) ==
    IF \A i \in DOMAIN table : table[i].path # q.path
    THEN q.status = 404 /\ started = {}
    ELSE IF q.body.kind = "invalid"
    THEN q.status = 400 /\ started = {}
    ELSE /\ Cardinality(started) = 1
         /\ \A k \in started :
               /\ ts[k].stage = "done"
               /\ q.body.kind = "empty" => ts[k].json_data = JsonObject(<<>>)
               /\ ts[k].outcome = "raises" => q.status = 500
               /\ ts[k].outcome = "returns" => q.status = 200
               /\ q.status = (IF ts[k].raised = "none" THEN 200 ELSE 500)

\* C19: the built-in server answers a POST to a path without a route with 404
\* and a body that is no JSON with 400, in both cases without running a
\* handler; it answers 500 when the handler raises and 200 when it returns;
\* it hands an empty body to the handler as an empty mapping; and whatever it
\* answered, it serves the next request
C19_BuiltInServerResponses ==
    /\ []((backend = "http_server" /\ Serving /\ Len(reqs) < MaxRequests)
              => ENABLED do_POST)
    /\ [][(backend = "http_server" /\ Len(reqs') = Len(reqs) + 1) =>
             ServedAsSpecified(reqs'[Len(reqs')], StartedBy(tasks, tasks'),
                               tasks', routes)]_vars

\* the server answered 500 for a callback that raised and then served a POST
\* without a body, whose handler ran on an empty mapping and returned
C19_Witness ==
    /\ backend = "http_server"
    /\ Len(reqs) = 2
    /\ reqs[1].status = 500
    /\ \E k \in TasksOf(1) : tasks[k].outcome = "raises"
    /\ reqs[2].body.kind = "empty"
    /\ reqs[2].status = 200
    /\ \E k \in TasksOf(2) : tasks[k].json_data = JsonObject(<<>>)
                              /\ tasks[k].called # None

====
